---- MODULE Spec2Model ----
(***************************************************************************)
(* Model of src/src/main.rs: the reader of the first page of a SQLite      *)
(* database file (file header, page header, cell-pointer array, varints,   *)
(* record headers, records and the catalog of schema records).             *)
(*                                                                         *)
(* Bytes are naturals in 0..255.  A u64 / usize value is kept at its full  *)
(* width as 8 base-256 digits, least significant first, because varints    *)
(* reach 63 bits and (serial - 13) can wrap.  Strings are sequences of     *)
(* Unicode code points.                                                    *)
(***************************************************************************)
EXTENDS Naturals, Integers, Sequences, FiniteSets, TLC

VARIABLES
    pc,            \* position of the running program / function
    outcome,       \* "running", "ok", "io_error" (Err returned) or "panic"
    file,          \* main: the bytes of the database file
    command,       \* main: args[2], a string
    header,        \* main: the 100-byte header array
    page_size,     \* main: u16 read from header[16..17]
    buffer,        \* main: the page buffer
    db_info,       \* main: DbInfo
    cells,         \* get_db_tables: Vec<Cell>
    cell_idx,      \* get_db_tables: number of cells the for loop has taken
    stmt_tbl_name, \* main: last word of the statement
    found,         \* main: "unset", "exists" or "missing" (the line printed)
    vbuf,          \* decode_varint: its argument
    vres,          \* decode_varint: its result <<value, consumed>>
    hbuf,          \* RecordHeader::new: buf
    cursor,        \* RecordHeader::new: cursor
    serials,       \* RecordHeader::new: serials
    rec_header,    \* RecordHeader::new: the RecordHeader built
    rpayload,      \* Record::new: record_payload
    rheader,       \* Record::new: record_header
    record         \* Record::new: the Record built

vars == <<pc, outcome, file, command, header, page_size, buffer, db_info, cells,
          cell_idx, stmt_tbl_name, found, vbuf, vres, hbuf, cursor, serials,
          rec_header, rpayload, rheader, record>>

mainVars == <<file, command, header, page_size, buffer, db_info, cells,
              cell_idx, stmt_tbl_name, found>>
varintVars == <<vbuf, vres>>
headerVars == <<hbuf, cursor, serials, rec_header>>
recordVars == <<rpayload, rheader, record>>

\* A value not yet computed is <<>>, a computed value x is <<x>>; likewise the
\* result of a step that can panic is Panicked or Ok(x).
Unset == <<>>
Panicked == <<>>
Ok(x) == <<x>>
IsOk(r) == Len(r) = 1
IsSet(r) == Len(r) = 1
Val(r) == r[1]

Min(a, b) == IF a < b THEN a ELSE b

Pow2(k) == CASE k = 0 -> 1 [] k = 1 -> 2 [] k = 2 -> 4 [] k = 3 -> 8 [] k = 4 -> 16
             [] k = 5 -> 32 [] k = 6 -> 64 [] k = 7 -> 128 [] k = 8 -> 256

Zeros(n) == [i \in 1..n |-> 0]

(***************************************************************************)
(* u64 arithmetic on 8 base-256 digits, least significant digit first.     *)
(***************************************************************************)
U64Zero == <<0, 0, 0, 0, 0, 0, 0, 0>>

\* A natural below 2^31 as a u64.
U64FromNat(n) ==
    <<n % 256, (n \div 256) % 256, (n \div 65536) % 256, (n \div 16777216) % 256,
      0, 0, 0, 0>>

\* The value is below 2^31.
U64IsSmall(v) == v[4] < 128 /\ \A i \in 5..8 : v[i] = 0

U64ToNat(v) == v[1] + 256 * v[2] + 65536 * v[3] + 16777216 * v[4]

RECURSIVE BitOr(_, _)
BitOr(x, y) ==
    IF x = 0 THEN y
    ELSE IF y = 0 THEN x
    ELSE (IF x % 2 = 1 \/ y % 2 = 1 THEN 1 ELSE 0) + 2 * BitOr(x \div 2, y \div 2)

RECURSIVE BitAnd(_, _)
BitAnd(x, y) ==
    IF x = 0 \/ y = 0 THEN 0
    ELSE (IF x % 2 = 1 /\ y % 2 = 1 THEN 1 ELSE 0) + 2 * BitAnd(x \div 2, y \div 2)

\* v << k on 64 bits, 0 <= k <= 8; the bits shifted out at the top are lost.
U64ShlDigit(v, k, i) ==
    ((v[i] * Pow2(k)) % 256) + (IF i > 1 THEN v[i - 1] \div Pow2(8 - k) ELSE 0)

U64Shl(v, k) ==
    <<U64ShlDigit(v, k, 1), U64ShlDigit(v, k, 2), U64ShlDigit(v, k, 3),
      U64ShlDigit(v, k, 4), U64ShlDigit(v, k, 5), U64ShlDigit(v, k, 6),
      U64ShlDigit(v, k, 7), U64ShlDigit(v, k, 8)>>

\* a | b
U64Or(a, b) ==
    <<BitOr(a[1], b[1]), BitOr(a[2], b[2]), BitOr(a[3], b[3]), BitOr(a[4], b[4]),
      BitOr(a[5], b[5]), BitOr(a[6], b[6]), BitOr(a[7], b[7]), BitOr(a[8], b[8])>>

\* v / 2
U64HalfDigit(v, i) == (v[i] \div 2) + (IF i < 8 THEN (v[i + 1] % 2) * 128 ELSE 0)

U64Half(v) ==
    <<U64HalfDigit(v, 1), U64HalfDigit(v, 2), U64HalfDigit(v, 3), U64HalfDigit(v, 4),
      U64HalfDigit(v, 5), U64HalfDigit(v, 6), U64HalfDigit(v, 7), U64HalfDigit(v, 8)>>

\* The borrow into digit i of a - b (digit 9: the subtraction underflows).
RECURSIVE U64Borrow(_, _, _)
U64Borrow(a, b, i) ==
    IF i = 1 THEN 0
    ELSE IF a[i - 1] - b[i - 1] - U64Borrow(a, b, i - 1) < 0 THEN 1 ELSE 0

U64SubOverflows(a, b) == U64Borrow(a, b, 9) = 1

\* a - b modulo 2^64
U64SubDigit(a, b, i) == (a[i] - b[i] - U64Borrow(a, b, i) + 256) % 256

U64WrappingSub(a, b) ==
    <<U64SubDigit(a, b, 1), U64SubDigit(a, b, 2), U64SubDigit(a, b, 3),
      U64SubDigit(a, b, 4), U64SubDigit(a, b, 5), U64SubDigit(a, b, 6),
      U64SubDigit(a, b, 7), U64SubDigit(a, b, 8)>>

\* The carry into digit i of a + b (digit 9: the addition overflows).
RECURSIVE U64Carry(_, _, _)
U64Carry(a, b, i) ==
    IF i = 1 THEN 0
    ELSE IF a[i - 1] + b[i - 1] + U64Carry(a, b, i - 1) > 255 THEN 1 ELSE 0

U64AddOverflows(a, b) == U64Carry(a, b, 9) = 1

\* a + b modulo 2^64
U64AddDigit(a, b, i) == (a[i] + b[i] + U64Carry(a, b, i)) % 256

U64WrappingAdd(a, b) ==
    <<U64AddDigit(a, b, 1), U64AddDigit(a, b, 2), U64AddDigit(a, b, 3),
      U64AddDigit(a, b, 4), U64AddDigit(a, b, 5), U64AddDigit(a, b, 6),
      U64AddDigit(a, b, 7), U64AddDigit(a, b, 8)>>

(***************************************************************************)
(* decode_varint: at most 9 bytes are taken; every byte, the terminal one  *)
(* and the ninth included, is folded in as value = (value << 7) | low bits.*)
(***************************************************************************)
RECURSIVE decode_varint_loop(_, _, _, _)
decode_varint_loop(buf, idx, value, consumed) ==
    IF idx > Min(Len(buf), 9) THEN <<value, consumed>>
    ELSE LET b == buf[idx] IN
         IF b < 128
         THEN <<U64Or(U64Shl(value, 7), U64FromNat(b)), consumed + 1>>
         ELSE decode_varint_loop(buf, idx + 1,
                  U64Or(U64Shl(value, 7), U64FromNat(BitAnd(b, 127))), consumed + 1)

\* decode_varint with the continuation byte's high bit left in:
\* value = (value << 7) | b instead of (value << 7) | (b & 0x7F).
RECURSIVE decode_varint_nomask_loop(_, _, _, _)
decode_varint_nomask_loop(buf, idx, value, consumed) ==
    IF idx > Min(Len(buf), 9) THEN <<value, consumed>>
    ELSE LET b == buf[idx] IN
         IF b < 128
         THEN <<U64Or(U64Shl(value, 7), U64FromNat(b)), consumed + 1>>
         ELSE decode_varint_nomask_loop(buf, idx + 1,
                  U64Or(U64Shl(value, 7), U64FromNat(b)), consumed + 1)

decode_varint_nomask(buf) == decode_varint_nomask_loop(buf, 1, U64Zero, 0)

\* decode_varint counting a byte only after the terminal-byte test, so that the
\* terminal byte is not counted.
RECURSIVE decode_varint_latecount_loop(_, _, _, _)
decode_varint_latecount_loop(buf, idx, value, consumed) ==
    IF idx > Min(Len(buf), 9) THEN <<value, consumed>>
    ELSE LET b == buf[idx] IN
         IF b < 128
         THEN <<U64Or(U64Shl(value, 7), U64FromNat(b)), consumed>>
         ELSE decode_varint_latecount_loop(buf, idx + 1,
                  U64Or(U64Shl(value, 7), U64FromNat(BitAnd(b, 127))), consumed + 1)

decode_varint_latecount(buf) == decode_varint_latecount_loop(buf, 1, U64Zero, 0)

decode_varint(buf) == decode_varint_loop(buf, 1, U64Zero, 0)

(***************************************************************************)
(* Slices.  Indices are 0-based as in the source; a slice whose bounds do  *)
(* not fit the buffer panics.                                              *)
(***************************************************************************)
\* &buf[start..] with start a natural
SliceFrom(buf, start) ==
    IF start > Len(buf) THEN Panicked ELSE Ok(SubSeq(buf, start + 1, Len(buf)))

\* &buf[start..end] with start and end of type usize (u64 digits)
Slice(buf, start, end) ==
    IF ~U64IsSmall(end) \/ ~U64IsSmall(start) THEN Panicked
    ELSE IF U64ToNat(end) > Len(buf) \/ U64ToNat(start) > U64ToNat(end) THEN Panicked
    ELSE Ok(SubSeq(buf, U64ToNat(start) + 1, U64ToNat(end)))

(***************************************************************************)
(* RecordHeader::new                                                       *)
(***************************************************************************)
\* One iteration of the while loop (cursor < buf.len(), so the slice exists):
\* <<cursor, serials>> after it.
serial_loop_step(buf, cur, sers) ==
    LET d == decode_varint(Val(SliceFrom(buf, cur)))
    IN  <<cur + d[2], Append(sers, d[1])>>

RECURSIVE serial_loop(_, _, _)
serial_loop(buf, cur, sers) ==
    IF cur < Len(buf)
    THEN LET n == serial_loop_step(buf, cur, sers) IN serial_loop(buf, n[1], n[2])
    ELSE <<cur, sers>>

\* ((serial - 13) / 2) as usize.  serial - 13 below zero panics in a build with
\* overflow checks and wraps modulo 2^64 in one without.
text_size(serial, overflow_checks) ==
    IF U64SubOverflows(serial, U64FromNat(13)) /\ overflow_checks THEN Panicked
    ELSE Ok(U64Half(U64WrappingSub(serial, U64FromNat(13))))

\* The lines after the loop: serials[0..4] are indexed and the struct is built.
record_header_build(sers, payload_size, rowid, header_size, overflow_checks) ==
    IF Len(sers) < 5 THEN Panicked
    ELSE LET type_size     == text_size(sers[1], overflow_checks)
             name_size     == text_size(sers[2], overflow_checks)
             tbl_name_size == text_size(sers[3], overflow_checks)
             root_page     == sers[4]
             sql_size      == text_size(sers[5], overflow_checks)
         IN  IF ~(IsOk(type_size) /\ IsOk(name_size) /\ IsOk(tbl_name_size)
                   /\ IsOk(sql_size))
             THEN Panicked
             ELSE Ok([size |-> payload_size, rowid |-> rowid, header_size |-> header_size,
                      type_size |-> Val(type_size), name_size |-> Val(name_size),
                      tbl_name_size |-> Val(tbl_name_size), root_page |-> root_page,
                      sql_size |-> Val(sql_size)])

RecordHeader_new(buf, payload_size, rowid, header_size, overflow_checks) ==
    record_header_build(serial_loop(buf, 0, <<>>)[2], payload_size, rowid,
                        header_size, overflow_checks)

(***************************************************************************)
(* Record::new                                                             *)
(***************************************************************************)
\* Each byte pushed as the char of the same code point.
RECURSIVE convert_from_ascii(_)
convert_from_ascii(arr) ==
    IF Len(arr) = 0 THEN <<>>
    ELSE <<Head(arr)>> \o convert_from_ascii(Tail(arr))

\* a + b on usize: an overflow panics in a build with overflow checks and wraps
\* in one without.
usize_add(a, b, overflow_checks) ==
    IF U64AddOverflows(a, b) /\ overflow_checks THEN Panicked
    ELSE Ok(U64WrappingAdd(a, b))

\* convert_from_ascii(&record_payload[i..size + i]) and the cursor after it:
\* <<text, size + i>>.
record_field(record_payload, i, size, overflow_checks) ==
    LET end == usize_add(size, i, overflow_checks) IN
    IF ~IsOk(end) THEN Panicked
    ELSE LET sl == Slice(record_payload, i, Val(end)) IN
         IF ~IsOk(sl) THEN Panicked
         ELSE Ok(<<convert_from_ascii(Val(sl)), Val(end)>>)

Record_new(record_payload, record_header, overflow_checks) ==
    LET f1 == record_field(record_payload, U64Zero, record_header.type_size,
                           overflow_checks) IN
    IF ~IsOk(f1) THEN Panicked ELSE
    LET f2 == record_field(record_payload, Val(f1)[2], record_header.name_size,
                           overflow_checks) IN
    IF ~IsOk(f2) THEN Panicked ELSE
    LET f3 == record_field(record_payload, Val(f2)[2], record_header.tbl_name_size,
                           overflow_checks) IN
    IF ~IsOk(f3) THEN Panicked ELSE
    \* i = record_header.root_page + i
    LET i4 == usize_add(record_header.root_page, Val(f3)[2], overflow_checks) IN
    IF ~IsOk(i4) THEN Panicked ELSE
    LET f5 == record_field(record_payload, Val(i4), record_header.sql_size,
                           overflow_checks) IN
    IF ~IsOk(f5) THEN Panicked ELSE
    Ok([s_type |-> Val(f1)[1], name |-> Val(f2)[1], tbl_name |-> Val(f3)[1],
        sql |-> Val(f5)[1], header |-> record_header])

(***************************************************************************)
(* Records                                                                 *)
(***************************************************************************)
\* Records::contains with starts_with in place of ==.
RECURSIVE contains_prefix(_, _)
contains_prefix(records, tbl_name) ==
    IF Len(records) = 0 THEN FALSE
    ELSE IF /\ Len(Head(records).tbl_name) >= Len(tbl_name)
            /\ SubSeq(Head(records).tbl_name, 1, Len(tbl_name)) = tbl_name
         THEN TRUE
         ELSE contains_prefix(Tail(records), tbl_name)

\* Records::contains
RECURSIVE contains(_, _)
contains(records, tbl_name) ==
    IF Len(records) = 0 THEN FALSE
    ELSE IF Head(records).tbl_name = tbl_name THEN TRUE
    ELSE contains(Tail(records), tbl_name)

\* Records::add_record
add_record(records, rec) == Append(records, rec)

(***************************************************************************)
(* get_db_info and get_db_tables                                           *)
(***************************************************************************)
FileHeaderSize == 100

\* u16::from_be_bytes([hi, lo])
u16_from_be_bytes(hi, lo) == hi * 256 + lo

\* buffer[idx] with idx 0-based: panics past the end.
ByteAt(buf, idx) == IF idx >= Len(buf) THEN Panicked ELSE Ok(buf[idx + 1])

get_db_info(buf, psize) ==
    LET page_header_byte == ByteAt(buf, FileHeaderSize) IN
    IF ~IsOk(page_header_byte) THEN Panicked ELSE
    LET page_header_size == IF Val(page_header_byte) = 13 THEN 8 ELSE 12
        page_header == Slice(buf, U64FromNat(FileHeaderSize),
                             U64FromNat(FileHeaderSize + page_header_size))
    IN
    IF ~IsOk(page_header) THEN Panicked ELSE
    LET tbl_count == u16_from_be_bytes(Val(page_header)[4], Val(page_header)[5]) IN
    Ok([no_tables |-> tbl_count, db_page_size |-> psize,
        page_header_size |-> page_header_size, records |-> <<>>])

\* The loop of get_db_tables that collects the cell offsets: it stops at the first
\* pair of zero bytes; buffer[i] or buffer[i+1] past the end of the buffer panics
\* (in the test when buffer[i] is 0, in the push when it is not).
RECURSIVE scan_cells(_, _, _)
scan_cells(buf, i, acc) ==
    IF i + 1 >= Len(buf) THEN Panicked
    ELSE IF buf[i + 1] = 0 /\ buf[i + 2] = 0 THEN Ok(acc)
    ELSE scan_cells(buf, i + 2,
                    Append(acc, [offset |-> u16_from_be_bytes(buf[i + 1], buf[i + 2])]))

\* a - b on usize: an underflow panics in a build with overflow checks and wraps
\* in one without.
usize_sub(a, b, overflow_checks) ==
    IF U64SubOverflows(a, b) /\ overflow_checks THEN Panicked
    ELSE Ok(U64WrappingSub(a, b))

\* The body of the for loop of get_db_tables for the cell at `offset`, in the
\* order of the source; each stage hands what it decoded to the next.
\* Last: the payload slice [rec_payload_start, rec_payload_start + size -
\* header_size) and Record::new.
cell_record(buf, rec_payload_start, rec_hdr, overflow_checks) ==
    LET e1 == usize_add(rec_payload_start, rec_hdr.size, overflow_checks) IN
    IF ~IsOk(e1) THEN Panicked ELSE
    LET e2 == usize_sub(Val(e1), rec_hdr.header_size, overflow_checks) IN
    IF ~IsOk(e2) THEN Panicked ELSE
    LET record_payload == Slice(buf, rec_payload_start, Val(e2)) IN
    IF ~IsOk(record_payload) THEN Panicked
    ELSE Record_new(Val(record_payload), rec_hdr, overflow_checks)

\* RecordHeader::new on payload_header, then rec_payload_start.
cell_record_header(buf, record_start, payload_header, payload_size, rowid, header_size, overflow_checks) ==
    LET rh == RecordHeader_new(payload_header, payload_size, rowid, header_size,
                               overflow_checks) IN
    IF ~IsOk(rh) THEN Panicked ELSE
    LET rec_payload_start == usize_add(U64FromNat(record_start), Val(rh).header_size,
                                       overflow_checks) IN
    IF ~IsOk(rec_payload_start) THEN Panicked
    ELSE cell_record(buf, Val(rec_payload_start), Val(rh), overflow_checks)

\* hs = (header_size, header_len): the slice
\* &buffer[record_start + header_len..record_start + header_size as usize].
cell_payload_header(buf, record_start, payload_size, rowid, hs, overflow_checks) ==
    LET hdr_end == usize_add(U64FromNat(record_start), hs[1], overflow_checks) IN
    IF ~IsOk(hdr_end) THEN Panicked ELSE
    LET payload_header == Slice(buf, U64FromNat(record_start + hs[2]), Val(hdr_end)) IN
    IF ~IsOk(payload_header) THEN Panicked
    ELSE cell_record_header(buf, record_start, Val(payload_header), payload_size, rowid,
                            hs[1], overflow_checks)

\* decode_varint(&buffer[record_start..])
cell_header_size(buf, record_start, payload_size, rowid, overflow_checks) ==
    LET s3 == SliceFrom(buf, record_start) IN
    IF ~IsOk(s3) THEN Panicked
    ELSE cell_payload_header(buf, record_start, payload_size, rowid,
                             decode_varint(Val(s3)), overflow_checks)

\* ps = (payload_size, payload_size_len): decode_varint(&buffer[offset +
\* payload_size_len..]) gives (rowid, rowid_len), and record_start.
cell_rowid(buf, offset, ps, overflow_checks) ==
    LET s2 == SliceFrom(buf, offset + ps[2]) IN
    IF ~IsOk(s2) THEN Panicked
    ELSE LET rid == decode_varint(Val(s2)) IN
         cell_header_size(buf, offset + ps[2] + rid[2], ps[1], rid[1], overflow_checks)

\* decode_varint(&buffer[offset..])
parse_cell(buf, offset, overflow_checks) ==
    LET s1 == SliceFrom(buf, offset) IN
    IF ~IsOk(s1) THEN Panicked
    ELSE cell_rowid(buf, offset, decode_varint(Val(s1)), overflow_checks)

(***************************************************************************)
(* main: the command line                                                  *)
(***************************************************************************)
\* ".dbinfo" and ".tables"
DotDbinfo == <<46, 100, 98, 105, 110, 102, 111>>
DotTables == <<46, 116, 97, 98, 108, 101, 115>>

\* statement.split(' '): the words between the spaces (code point 32).
RECURSIVE split_space(_, _, _)
split_space(str, word, acc) ==
    IF Len(str) = 0 THEN Append(acc, word)
    ELSE IF Head(str) = 32 THEN split_space(Tail(str), <<>>, Append(acc, word))
    ELSE split_space(Tail(str), Append(word, Head(str)), acc)

\* stms.last(), which split never leaves empty
last_word(statement) ==
    LET stms == split_space(statement, <<>>, <<>>) IN stms[Len(stms)]

(***************************************************************************)
(* Values of the variables a specification does not use.                   *)
(***************************************************************************)
MainIdle ==
    /\ file = <<>> /\ command = <<>> /\ header = <<>> /\ page_size = 0
    /\ buffer = <<>> /\ db_info = Unset /\ cells = <<>> /\ cell_idx = 0
    /\ stmt_tbl_name = <<>> /\ found = "unset"

VarintIdle == vbuf = <<>> /\ vres = Unset

HeaderIdle == hbuf = <<>> /\ cursor = 0 /\ serials = <<>> /\ rec_header = Unset

RecordIdle == rpayload = <<>> /\ rheader = Unset /\ record = Unset

SeqsUpTo(S, n) == UNION {[1..m -> S] : m \in 0..n}

(***************************************************************************)
(* Specification SpecVarint: decode_varint applied to a buffer.            *)
(***************************************************************************)
MaxCont == 8
MaxTail == 2

\* Bytes with the high bit set (0x81, 0xFF).
ContBytes == {129, 255}
\* 0x00, 0x05, 0x85, 0xFF
TailBytes == {0, 5, 133, 255}

\* Buffers: a run of continuation bytes, then a few arbitrary bytes.
VarintInputs ==
    {p \o t : p \in SeqsUpTo(ContBytes, MaxCont), t \in SeqsUpTo(TailBytes, MaxTail)}

InitVarint ==
    /\ pc = "varint" /\ outcome = "running"
    /\ vbuf \in VarintInputs /\ vres = Unset
    /\ MainIdle /\ HeaderIdle /\ RecordIdle

DecodeVarint ==
    /\ pc = "varint"
    /\ vres' = Ok(decode_varint(vbuf))
    /\ pc' = "done" /\ outcome' = "ok"
    /\ UNCHANGED <<vbuf, mainVars, headerVars, recordVars>>

NextVarint == DecodeVarint

SpecVarint == InitVarint /\ [][NextVarint]_vars

\* Bit j (0 = least significant) of a u64 and of a byte.
U64Bit(v, j) == (v[(j \div 8) + 1] \div Pow2(j % 8)) % 2
ByteBit(b, j) == (b \div Pow2(j)) % 2

\* 1-based position of the first byte with a clear high bit; 0 when there is none.
FirstTerminal(buf) ==
    IF \E k \in 1..Len(buf) : buf[k] < 128
    THEN CHOOSE k \in 1..Len(buf) : buf[k] < 128 /\ \A m \in 1..(k - 1) : buf[m] >= 128
    ELSE 0

\* (value << 7) | (byte & 0x7F) folded over the first k bytes, on naturals (k <= 4).
RECURSIVE FoldLow7(_, _)
FoldLow7(buf, k) == IF k = 0 THEN 0 ELSE FoldLow7(buf, k - 1) * 128 + (buf[k] % 128)

\* C4: when the first byte with a clear high bit is at position k <= 8,
\* decode_varint returns bytesConsumed = k and the value whose 7-bit groups are
\* the low 7 bits of the first k bytes (the fold value = (value << 7) | (byte & 0x7F)
\* from 0); [0x05] gives (5, 1), [0x81, 0x00] gives (128, 2); later bytes play no part.
C4_VarintFold ==
    IsSet(vres) =>
        LET k == FirstTerminal(vbuf)
            value == Val(vres)[1]
            consumed == Val(vres)[2]
        IN
        /\ (k \in 1..8) =>
              /\ consumed = k
              /\ \A j \in 0..63 :
                    U64Bit(value, j) =
                        IF j < 7 * k THEN ByteBit(vbuf[k - (j \div 7)], j % 7) ELSE 0
              /\ (k <= 4) => U64IsSmall(value) /\ U64ToNat(value) = FoldLow7(vbuf, k)
        /\ (vbuf = <<5>>) => (value = U64FromNat(5) /\ consumed = 1)
        /\ (vbuf = <<129, 0>>) => (value = U64FromNat(128) /\ consumed = 2)

\* A decoded 8-byte varint that is followed by further bytes.
C4_Witness == IsSet(vres) /\ FirstTerminal(vbuf) = 8 /\ Len(vbuf) > 8

\* The first 8 bytes all have the high bit set and a 9th byte exists.
NineByteInput(buf) == Len(buf) >= 9 /\ \A m \in 1..8 : buf[m] >= 128

\* C5: on a 9-byte varint decode_varint consumes 9 bytes and
\* value = (56 accumulated bits << 8) | byte9, all 8 bits of the 9th byte used.
C5_NinthByteAllBits ==
    (IsSet(vres) /\ NineByteInput(vbuf)) =>
        /\ Val(vres)[2] = 9
        /\ \A j \in 0..63 :
              U64Bit(Val(vres)[1], j) =
                  IF j < 8 THEN ByteBit(vbuf[9], j)
                  ELSE ByteBit(vbuf[8 - ((j - 8) \div 7)], (j - 8) % 7)

(***************************************************************************)
(* Specification SpecHeader: RecordHeader::new on a header slice, its      *)
(* while loop taken one iteration per step.                                *)
(***************************************************************************)
MaxHdr == 6

\* Serial type bytes: 0x01 (integer), 0x0E (blob), 0x0F (text), 0x81 (continuation).
HdrBytes == {1, 14, 15, 129}

HeaderInputs ==
    SeqsUpTo(HdrBytes, MaxHdr)
    \cup {[i \in 1..n |-> 129] \o t : n \in 9..(MaxHdr + 5), t \in SeqsUpTo(HdrBytes, 1)}

InitHeader ==
    /\ pc = "hdr_loop" /\ outcome = "running"
    /\ hbuf \in HeaderInputs /\ cursor = 0 /\ serials = <<>> /\ rec_header = Unset
    /\ MainIdle /\ VarintIdle /\ RecordIdle

\* while cursor < buf.len() { ... }
HeaderLoopStep ==
    /\ pc = "hdr_loop"
    /\ cursor < Len(hbuf)
    /\ LET n == serial_loop_step(hbuf, cursor, serials)
       IN  cursor' = n[1] /\ serials' = n[2]
    /\ UNCHANGED <<pc, outcome, hbuf, rec_header, mainVars, varintVars, recordVars>>

\* The loop has ended: the sizes are computed and the RecordHeader returned.
HeaderBuild ==
    /\ pc = "hdr_loop"
    /\ ~(cursor < Len(hbuf))
    /\ \E overflow_checks \in BOOLEAN :
         LET h == record_header_build(serials, U64FromNat(Len(hbuf) + 8), U64FromNat(1),
                                      U64FromNat(Len(hbuf) + 1), overflow_checks)
         IN  /\ rec_header' = h
             /\ outcome' = IF IsOk(h) THEN "ok" ELSE "panic"
    /\ pc' = "done"
    /\ UNCHANGED <<hbuf, cursor, serials, mainVars, varintVars, recordVars>>

NextHeader == HeaderLoopStep \/ HeaderBuild

SpecHeader == InitHeader /\ [][NextHeader]_vars

\* A serial type that is no text serial in the claim's terms: below 13, or odd.
BadTextSerial(s) == (U64IsSmall(s) /\ U64ToNat(s) < 13) \/ s[1] % 2 = 1

\* C7: a serial type below 13 or odd at a text column (0, 1, 2 or 4) ends
\* RecordHeader parsing in an UnsupportedSerialType failure, and no RecordHeader
\* with a size computed as (serial - 13) / 2 from it is produced.
C7_UnsupportedSerialType ==
    (pc = "done" /\ Len(serials) >= 5 /\ \E c \in {1, 2, 3, 5} : BadTextSerial(serials[c]))
        => (outcome = "unsupported_serial_type" /\ ~IsSet(rec_header))

\* C10: every iteration of the serial-type loop consumes between 1 and
\* min(9, bytes left) bytes and collects one serial, so the bytes left strictly
\* decrease and the loop ends; the cursor never passes the end of the slice and
\* equals its length when the loop has ended.
C10_SerialLoop ==
    [][/\ HeaderLoopStep =>
            /\ cursor' > cursor
            /\ cursor' - cursor <= Min(9, Len(hbuf) - cursor)
            /\ Len(hbuf) - cursor' < Len(hbuf) - cursor
            /\ Len(serials') = Len(serials) + 1
       /\ cursor' <= Len(hbuf')
       /\ (pc' = "done") => (cursor' = Len(hbuf'))]_vars

\* The loop ran over a slice holding a 9-byte varint and further serials.
C10_Witness ==
    /\ pc = "done" /\ Len(hbuf) > 9 /\ Len(serials) = 2
    /\ \A m \in 1..9 : hbuf[m] >= 128

(***************************************************************************)
(* Specification SpecRecord: Record::new on a payload and a RecordHeader.  *)
(***************************************************************************)
MaxField == 1
MaxSql == 2

\* Payloads whose byte at 0-based position p is 65 + p.
PayloadOfLen(n) == [p \in 1..n |-> 64 + p]

\* Serial types of a text column: 13 + 2k for a text of k bytes, k in 0..n; and
\* the integer serial type 1, for which serial - 13 wraps.
TextSerials(n) == {13 + 2 * k : k \in 0..n} \cup {1}

\* The RecordHeaders that RecordHeader::new (overflow checks off) builds from five
\* one-byte serial types, the rootpage column's in 0..9.
RecordHeaders ==
    {Val(RecordHeader_new(<<a, b, c, rp, 13 + 2 * sq>>, U64FromNat(0), U64FromNat(1),
                          U64FromNat(6), FALSE)) :
        a \in TextSerials(MaxField), b \in TextSerials(MaxField),
        c \in TextSerials(MaxField), rp \in 0..9, sq \in 1..MaxSql}

InitRecord ==
    /\ pc = "record" /\ outcome = "running"
    /\ rpayload \in {PayloadOfLen(n) : n \in {MaxField + 4, 3 * MaxField + 8 + MaxSql}}
    /\ rheader \in {Ok(h) : h \in RecordHeaders}
    /\ record = Unset
    /\ MainIdle /\ VarintIdle /\ HeaderIdle

RecordNew ==
    /\ pc = "record"
    /\ \E overflow_checks \in BOOLEAN :
         LET r == Record_new(rpayload, Val(rheader), overflow_checks)
         IN  record' = r /\ outcome' = IF IsOk(r) THEN "ok" ELSE "panic"
    /\ pc' = "done"
    /\ UNCHANGED <<rpayload, rheader, mainVars, varintVars, headerVars>>

NextRecord == RecordNew

SpecRecord == InitRecord /\ [][NextRecord]_vars

\* On-disk width in bytes of an integer column of serial type 1..6.
IntSerialWidth(st) ==
    CASE st = 1 -> 1 [] st = 2 -> 2 [] st = 3 -> 3 [] st = 4 -> 4 [] st = 5 -> 6
      [] st = 6 -> 8

\* C3: for a rootpage serial type in 1..6 the sql field is the payload slice that
\* starts at type_size + name_size + tbl_name_size + W, W the byte width of the
\* rootpage column given by its serial type (1,2,3,4,6,8).
C3_SqlAfterRootpageWidth ==
    (pc = "done" /\ outcome = "ok" /\ U64ToNat(Val(rheader).root_page) \in 1..6) =>
        \* root_page holds the rootpage column's serial type (RecordHeader::new)
        LET h == Val(rheader)
            start == U64ToNat(h.type_size) + U64ToNat(h.name_size)
                     + U64ToNat(h.tbl_name_size)
                     + IntSerialWidth(U64ToNat(h.root_page))
        IN  /\ start + U64ToNat(h.sql_size) <= Len(rpayload)
            /\ Val(record).sql = [p \in 1..U64ToNat(h.sql_size) |-> 64 + start + p]

(***************************************************************************)
(* Specification Spec: main on a database file and a command.              *)
(***************************************************************************)
MaxCells == 2

\* A table-leaf cell of sqlite_master: payload size, rowid, then the record (header
\* size 6, five one-byte serial types, the column bytes).
MkCell(rowid, sers, body) == <<6 + Len(body), rowid, 6>> \o sers \o body

\* "table"
TextTable == <<116, 97, 98, 108, 101>>

\* Tables "a", "b" and "ab"; and a cell whose tbl_name column has serial type 1.
CellA   == MkCell(1, <<23, 15, 15, 1, 17>>, TextTable \o <<97>> \o <<97>> \o <<2>> \o <<67, 97>>)
CellB   == MkCell(2, <<23, 15, 15, 1, 17>>, TextTable \o <<98>> \o <<98>> \o <<3>> \o <<67, 98>>)
CellAB  == MkCell(3, <<23, 17, 17, 1, 17>>,
                  TextTable \o <<97, 98>> \o <<97, 98>> \o <<4>> \o <<67, 120>>)
CellBad == MkCell(4, <<23, 15, 1, 1, 17>>, TextTable \o <<99>> \o <<9>> \o <<5>> \o <<67, 99>>)

\* The cell content area of every page built here starts at CellBase.
CellBase == FileHeaderSize + 12 + 2 * MaxCells + 2 + 4
OffA   == CellBase
OffB   == OffA + Len(CellA)
OffAB  == OffB + Len(CellB)
OffBad == OffAB + Len(CellAB)
CellBank == CellA \o CellB \o CellAB \o CellBad
PageSize == CellBase + Len(CellBank)

\* The tbl_name of the well-formed cell at an offset.
GoodCells == {OffA, OffB, OffAB}
TblNameAt(off) ==
    CASE off = OffA -> <<97>> [] off = OffB -> <<98>> [] off = OffAB -> <<97, 98>>

\* Cell-pointer entries: the four cells, 0x0000, the page size, 0xFFFF.
PtrKinds == GoodCells \cup {OffBad, 0, PageSize, 65535}

BE16(n) == <<n \div 256, n % 256>>

RECURSIVE PtrBytes(_)
PtrBytes(ptrs) == IF Len(ptrs) = 0 THEN <<>> ELSE BE16(Head(ptrs)) \o PtrBytes(Tail(ptrs))

\* The bytes between the cell-pointer array and the cell content area: zeros, a
\* stale pointer (to the cell of "b") then zeros, or no zero byte at all.
Trail(kind, n) ==
    CASE kind = "zero"  -> Zeros(n)
      [] kind = "stale" -> BE16(OffB) \o Zeros(n - 2)
      [] kind = "full"  -> [i \in 1..n |-> 1]

\* A database file: the 100-byte header with the page size at bytes 16-17, the
\* page header (8 bytes for a table leaf, type 13; 12 otherwise) with the cell
\* count at +3, the cell-pointer array, the bytes after it, the cells; cut to flen.
MkFile(declared, flen, ptype, nc, ptrs, trail) ==
    LET fh == [i \in 1..FileHeaderSize |->
                  IF i = 17 THEN declared \div 256
                  ELSE IF i = 18 THEN declared % 256 ELSE 0]
        ph == <<ptype, 0, 0>> \o BE16(nc) \o BE16(CellBase) \o <<0>>
              \o (IF ptype = 13 THEN <<>> ELSE <<0, 0, 0, 0>>)
        front == fh \o ph \o PtrBytes(ptrs)
        page == front \o Trail(trail, CellBase - Len(front)) \o CellBank
    IN  SubSeq(page, 1, Min(flen, Len(page)))

\* Statements "s a", "ab", "A", "z"
Statements == {<<115, 32, 97>>, <<97, 98>>, <<65>>, <<122>>}

\* Whole files holding a page: table leaves (type 13) of any cell count and
\* pointer entries, followed by zeros or by a stale pointer; and interior pages
\* (type 5), the last of them with no zero byte after the page header.
PageFiles ==
    {MkFile(PageSize, PageSize, 13, nc, ptrs, trail) :
        nc \in 0..MaxCells, ptrs \in SeqsUpTo(PtrKinds, MaxCells),
        trail \in {"zero", "stale"}}
    \cup {MkFile(PageSize, PageSize, 5, Len(ptrs), ptrs, "zero") :
              ptrs \in SeqsUpTo(GoodCells, MaxCells)}
    \cup {MkFile(PageSize, PageSize, 5, nc, <<>>, "full") : nc \in 0..MaxCells}

\* Files cut short, or declaring a page size that is too small.
ShortFiles ==
    {MkFile(declared, flen, 13, 2, <<OffA, OffB>>, "zero") :
        declared \in {0, 50, FileHeaderSize, FileHeaderSize + 4, PageSize},
        flen \in {0, 50, FileHeaderSize, FileHeaderSize + 4, PageSize - 1, PageSize}}

Init ==
    /\ pc = "start" /\ outcome = "running"
    /\ file \in PageFiles \cup ShortFiles
    /\ command \in {DotDbinfo, DotTables} \cup Statements
    /\ header = <<>> /\ page_size = 0 /\ buffer = <<>> /\ db_info = Unset
    /\ cells = <<>> /\ cell_idx = 0 /\ stmt_tbl_name = <<>> /\ found = "unset"
    /\ VarintIdle /\ HeaderIdle /\ RecordIdle

otherVars == <<varintVars, headerVars, recordVars>>

\* File::open; file.read_exact(&mut header)?
ReadHeader ==
    /\ pc = "start"
    /\ IF Len(file) < FileHeaderSize
       THEN pc' = "done" /\ outcome' = "io_error" /\ UNCHANGED header
       ELSE pc' = "read_page" /\ header' = SubSeq(file, 1, FileHeaderSize)
            /\ UNCHANGED outcome
    /\ UNCHANGED <<file, command, page_size, buffer, db_info, cells, cell_idx,
                   stmt_tbl_name, found, otherVars>>

\* page_size from header[16..17]; buffer.resize(page_size, 0);
\* file.read_exact(&mut buffer[100..])?
ReadPage ==
    /\ pc = "read_page"
    /\ page_size' = u16_from_be_bytes(header[17], header[18])
    /\ IF ~IsOk(SliceFrom(Zeros(page_size'), FileHeaderSize))
       THEN pc' = "done" /\ outcome' = "panic" /\ buffer' = Zeros(page_size')
       ELSE IF Len(file) - FileHeaderSize < page_size' - FileHeaderSize
       THEN pc' = "done" /\ outcome' = "io_error" /\ buffer' = Zeros(page_size')
       ELSE /\ pc' = "get_db_info" /\ UNCHANGED outcome
            /\ buffer' = Zeros(FileHeaderSize) \o SubSeq(file, FileHeaderSize + 1, page_size')
    /\ UNCHANGED <<file, command, header, db_info, cells, cell_idx, stmt_tbl_name,
                   found, otherVars>>

\* let mut db_info = get_db_info(&buffer, page_size, false)
GetDbInfo ==
    /\ pc = "get_db_info"
    /\ LET r == get_db_info(buffer, page_size) IN
       IF IsOk(r)
       THEN db_info' = r /\ pc' = "dispatch" /\ UNCHANGED outcome
       ELSE pc' = "done" /\ outcome' = "panic" /\ UNCHANGED db_info
    /\ UNCHANGED <<file, command, header, page_size, buffer, cells, cell_idx,
                   stmt_tbl_name, found, otherVars>>

\* match command.as_str(): ".dbinfo" calls get_db_info again and ends; ".tables" and
\* a statement go on to get_db_tables, the statement's last word taken first.
Dispatch ==
    /\ pc = "dispatch"
    /\ \/ /\ command = DotDbinfo
          /\ outcome' = IF IsOk(get_db_info(buffer, page_size)) THEN "ok" ELSE "panic"
          /\ pc' = "done" /\ UNCHANGED stmt_tbl_name
       \/ /\ command = DotTables
          /\ pc' = "scan" /\ UNCHANGED <<outcome, stmt_tbl_name>>
       \/ /\ command \notin {DotDbinfo, DotTables}
          /\ stmt_tbl_name' = last_word(command)
          /\ pc' = "scan" /\ UNCHANGED outcome
    /\ UNCHANGED <<file, command, header, page_size, buffer, db_info, cells,
                   cell_idx, found, otherVars>>

\* get_db_tables: the loop that collects the cells
ScanCells ==
    /\ pc = "scan"
    /\ LET r == scan_cells(buffer, Val(db_info).page_header_size + FileHeaderSize, <<>>) IN
       IF IsOk(r)
       THEN cells' = Val(r) /\ pc' = "parse" /\ UNCHANGED outcome
       ELSE pc' = "done" /\ outcome' = "panic" /\ UNCHANGED cells
    /\ UNCHANGED <<file, command, header, page_size, buffer, db_info, cell_idx,
                   stmt_tbl_name, found, otherVars>>

\* get_db_tables: one iteration of `for cell in cells.iter()`
ParseCell ==
    /\ pc = "parse"
    /\ cell_idx < Len(cells)
    /\ cell_idx' = cell_idx + 1
    /\ \E overflow_checks \in BOOLEAN :
         LET r == parse_cell(buffer, cells[cell_idx + 1].offset, overflow_checks) IN
         IF IsOk(r)
         THEN /\ db_info' = Ok([Val(db_info) EXCEPT
                                   !.records = add_record(@, Val(r))])
              /\ UNCHANGED <<pc, outcome>>
         ELSE pc' = "done" /\ outcome' = "panic" /\ UNCHANGED db_info
    /\ UNCHANGED <<file, command, header, page_size, buffer, cells, stmt_tbl_name,
                   found, otherVars>>

\* ".tables": get_db_tables has returned and main returns Ok(())
TablesDone ==
    /\ pc = "parse"
    /\ cell_idx = Len(cells)
    /\ command = DotTables
    /\ pc' = "done" /\ outcome' = "ok"
    /\ UNCHANGED <<file, command, header, page_size, buffer, db_info, cells,
                   cell_idx, stmt_tbl_name, found, otherVars>>

\* a statement: tbl_info.contains(stmt_tbl_name) and the line printed
StatementQuery ==
    /\ pc = "parse"
    /\ cell_idx = Len(cells)
    /\ command # DotTables
    /\ found' = IF contains(Val(db_info).records, stmt_tbl_name)
                THEN "exists" ELSE "missing"
    /\ pc' = "done" /\ outcome' = "ok"
    /\ UNCHANGED <<file, command, header, page_size, buffer, db_info, cells,
                   cell_idx, stmt_tbl_name, otherVars>>

Next ==
    \/ ReadHeader \/ ReadPage \/ GetDbInfo \/ Dispatch \/ ScanCells \/ ParseCell
    \/ TablesDone \/ StatementQuery

Spec == Init /\ [][Next]_vars

\* The catalog
Catalog == Val(db_info).records

\* The page header's declared cell_count and the i-th entry (from 1) of the
\* cell-pointer array of a table-leaf page, read from the page bytes.
DeclaredCellCount(buf) == buf[FileHeaderSize + 4] * 256 + buf[FileHeaderSize + 5]
PtrEntry(buf, i) ==
    buf[FileHeaderSize + 8 + 2 * i - 1] * 256 + buf[FileHeaderSize + 8 + 2 * i]

\* get_db_tables has returned to main.
CatalogBuilt == pc = "done" /\ outcome = "ok" /\ command # DotDbinfo

\* C1: after the build the catalog holds exactly cell_count records, cell_count
\* the 2-byte big-endian value at page-header offset +3, which is also no_tables.
C1_ParsesCellCount ==
    CatalogBuilt =>
        /\ Val(db_info).no_tables = DeclaredCellCount(buffer)
        /\ Len(Catalog) = DeclaredCellCount(buffer)

\* A table-leaf first page whose cell_count pointer entries each point to a
\* well-formed sqlite_master cell; the unallocated bytes between the array and
\* the cell content area are zero or stale pointers to such cells (what removing
\* a cell from the array leaves behind).
WellFormedLeaf(buf) ==
    /\ Len(buf) = PageSize
    /\ buf[FileHeaderSize + 1] = 13
    /\ \A i \in 1..((CellBase - FileHeaderSize - 8) \div 2) :
          IF i <= DeclaredCellCount(buf)
          THEN PtrEntry(buf, i) \in GoodCells
          ELSE PtrEntry(buf, i) \in GoodCells \cup {0}

\* C2: for a well-formed table-leaf first page the catalog holds one record per
\* cell-pointer entry, in array order: the i-th tbl_name is that of the cell at the
\* i-th offset.
C2_CatalogInPointerOrder ==
    (pc = "done" /\ command # DotDbinfo /\ WellFormedLeaf(buffer)) =>
        /\ outcome = "ok"
        /\ Len(Catalog) = DeclaredCellCount(buffer)
        /\ \A i \in 1..DeclaredCellCount(buffer) :
              Catalog[i].tbl_name = TblNameAt(PtrEntry(buffer, i))

\* The file is shorter than 100 bytes or than the page size it declares, or
\* declares a page size below the 100-byte header plus the page header.
TruncatedInput(f) ==
    \/ Len(f) < FileHeaderSize
    \/ f[17] * 256 + f[18] > Len(f)
    \/ f[17] * 256 + f[18] < FileHeaderSize + 8

\* C6: reading the first page of such an input ends in a failure returned to the
\* caller (an Err), never in an out-of-bounds panic.
C6_TruncatedIsAnError ==
    (TruncatedInput(file) /\ pc \notin {"start", "read_page", "get_db_info"}) =>
        (pc = "done" /\ outcome = "io_error")

\* C8: every cell offset the for loop has taken to index the buffer is below
\* page_size.
C8_OffsetsInPage == \A j \in 1..cell_idx : cells[j].offset < page_size

\* C9: the existence query answers "exists" exactly when some record of the
\* catalog has tbl_name equal to the name, whole string, and leaves the catalog as
\* it was.
C9_ContainsExact ==
    [][StatementQuery =>
         /\ found' = "exists" <=>
                \E i \in 1..Len(Catalog) : Catalog[i].tbl_name = stmt_tbl_name
         /\ db_info' = db_info]_vars

\* The query for "a" answered on a catalog that holds "ab" and not "a".
C9_Witness ==
    /\ pc = "done" /\ found = "missing" /\ stmt_tbl_name = <<97>>
    /\ \E i \in 1..Len(Catalog) : Catalog[i].tbl_name = <<97, 98>>

====
